---- MODULE Spec2Model ----
(***************************************************************************)
(* ProcessHierarchy.c: a command-line tool that reads the process table    *)
(* from /proc, decides tree membership by walking parent links, lists      *)
(* relatives of a target process and signals whole subtrees.               *)
(*                                                                         *)
(* The kernel's process table is the environment.  The program sees it    *)
(* only through readdir("/proc"), the text of /proc/<pid>/stat as parsed   *)
(* by fscanf, and the return value of kill().                              *)
(***************************************************************************)
EXTENDS Integers, Sequences, FiniteSets, TLC

VARIABLES
    table,        \* the kernel's process table: pid -> [alive, comm, state, ppid]
    table0,       \* the process table as it was when the program started
    pc,           \* where the program is
    argv,         \* main: the arguments after the program's name
    argc,         \* main: the argument count, Len(argv) + 1
    root_pid,     \* main: atoi(argv[1])
    target_pid,   \* main: atoi(argv[2])
    option,       \* main: <<argv[3]>>, NULL when there is none
    rc,           \* the exit code (-1 while the program runs)
    fn,           \* the function that is running (or ran last)
    pid,          \* its pid_t pid parameter
    other,        \* is_in_tree's second parameter (target_pid), else 0
    ret,          \* the int a function returned (-2: none yet)
    out,          \* lines printed on stdout
    err,          \* lines printed on stderr
    dirpos,       \* the open directory stream: the entry readdir returns next
    descendants,  \* kill_descendants: pid_t descendants[], descendant_count long
    i,            \* kill_descendants: the index of its second loop
    missed,       \* kill_descendants: int missed
    killed_any,   \* kill_zombie_parents: int killed_any
    sigs,         \* every kill() call made, in order
    seen,         \* every pid a bulk scan selected, in order
    opens,        \* how many times opendir was called
    nodir,        \* how many of those calls returned NULL
    env           \* how many times the process table changed under the program

callVars == <<fn, pid, other, ret, out, err>>

mainVars == <<table0, argv, argc, root_pid, target_pid, option, rc>>

scanVars == <<dirpos, descendants, i, missed, killed_any>>

logVars == <<sigs, seen>>

dirVars == <<opens, nodir>>

vars == <<table, pc, mainVars, callVars, scanVars, logVars, dirVars, env>>

(***************************************************************************)
(* Bounds of the model.                                                    *)
(***************************************************************************)
\* The pids that may hold a process when the program starts are 1..NumPids;
\* pid 1 is init.
NumPids == 4
\* Further pids, free at the start except where kill_descendants is followed
\* on a table with more descendants than its array holds below a target that
\* is not init.
SparePids == 1
\* The hop limit of is_in_tree's walk; 1000 in the source (line 155), scaled
\* down so that chains longer than the limit exist among NumPids processes.
MaxHops == 2
\* How many processes may carry a name with blanks in it.
MaxOddNames == 1
\* The capacity of kill_descendants' array; 1024 in the source (line 403),
\* scaled down so that more descendants than it holds exist among NumPids
\* processes.
MaxDescendants == 2
\* How many times other programs and the kernel may change the process table
\* while a bulk operation runs.
MaxEnvSteps == 1

MaxPid == NumPids + SparePids

Pids == 1..MaxPid

(***************************************************************************)
(* Text.  A character is a one-character string; a token is a sequence of  *)
(* characters holding no white space; a file is a sequence of tokens.      *)
(***************************************************************************)
Digits == <<"0", "1", "2", "3", "4", "5", "6", "7", "8", "9">>

isdigit(c) == \E d \in 1..10 : Digits[d] = c

DigitVal(c) == (CHOOSE d \in 1..10 : Digits[d] = c) - 1

\* printf("%d") of a number >= 0.
RECURSIVE Dec(_)
Dec(n) == IF n < 10 THEN <<Digits[n + 1]>>
          ELSE Dec(n \div 10) \o <<Digits[(n % 10) + 1]>>

\* How many characters at the front of tok are digits.
RECURSIVE DigitPrefixLen(_)
DigitPrefixLen(tok) ==
    IF tok = <<>> \/ ~isdigit(Head(tok)) THEN 0
    ELSE 1 + DigitPrefixLen(Tail(tok))

\* The value of a sequence of digits, most significant first.
RECURSIVE DigitsValue(_, _)
DigitsValue(ds, acc) ==
    IF ds = <<>> THEN acc
    ELSE DigitsValue(Tail(ds), 10 * acc + DigitVal(Head(ds)))

\* atoi(): an optional sign and the digits that follow it, 0 when there are
\* none.
atoi(name) ==
    IF name # <<>> /\ Head(name) = "-"
    THEN 0 - DigitsValue(SubSeq(Tail(name), 1, DigitPrefixLen(Tail(name))), 0)
    ELSE DigitsValue(SubSeq(name, 1, DigitPrefixLen(name)), 0)

(***************************************************************************)
(* fscanf's conversions over the rest of a file: a sequence of tokens      *)
(* whose first token may be partly (or wholly) consumed.                   *)
(***************************************************************************)
SkipWs(rest) == IF rest # <<>> /\ Head(rest) = <<>> THEN Tail(rest) ELSE rest

\* "%d": skips white space, then needs at least one digit.
ScanInt(rest) ==
    LET r == SkipWs(rest)
        n == IF r = <<>> THEN 0 ELSE DigitPrefixLen(Head(r))
    IN  IF n = 0 THEN [ok |-> FALSE, val |-> 0, rest |-> r]
        ELSE [ok   |-> TRUE,
              val  |-> DigitsValue(SubSeq(Head(r), 1, n), 0),
              rest |-> <<SubSeq(Head(r), n + 1, Len(Head(r)))>> \o Tail(r)]

\* "%*s": skips white space, then everything up to the next white space.
ScanSkipString(rest) ==
    LET r == SkipWs(rest)
    IN  IF r = <<>> THEN [ok |-> FALSE, rest |-> r]
        ELSE [ok |-> TRUE, rest |-> <<<<>>>> \o Tail(r)]

\* " %c": the blank in the format skips white space, %c takes one character.
ScanChar(rest) ==
    LET r == SkipWs(rest)
    IN  IF r = <<>> THEN [ok |-> FALSE, val |-> " ", rest |-> r]
        ELSE [ok |-> TRUE, val |-> Head(Head(r)),
              rest |-> <<Tail(Head(r))>> \o Tail(r)]

(***************************************************************************)
(* /proc as the kernel writes it.                                          *)
(***************************************************************************)
\* A process name is a sequence of words; the kernel prints it in
\* parentheses, blanks and all.
CommTokens(comm) ==
    [k \in 1..Len(comm) |->
        (IF k = 1 THEN <<"(">> ELSE <<>>) \o comm[k] \o
        (IF k = Len(comm) THEN <<")">> ELSE <<>>)]

\* The leading fields of /proc/<p>/stat: pid (comm) state ppid.
StatFile(tbl, p) ==
    <<Dec(p)>> \o CommTokens(tbl[p].comm) \o
    << <<tbl[p].state>>, Dec(tbl[p].ppid) >>

\* The names readdir("/proc") returns, in the order it returns them: the
\* kernel lists the numeric entries by ascending pid.  An entry may be
\* stale: its process is gone by the time its stat file is opened.
ProcDir == << <<"s", "e", "l", "f">> >> \o [p \in Pids |-> Dec(p)]

(***************************************************************************)
(* The program's reading of /proc.                                         *)
(***************************************************************************)
\* ProcessInfo info = {0, 0, ' '}
EmptyInfo == [pid |-> 0, ppid |-> 0, state |-> " "]

\* fopen fails for a process that is gone; otherwise
\* fscanf(fp, "%d %*s %c %d", &info.pid, &info.state, &info.ppid) fills the
\* fields one conversion after the other and stops at the first that fails.
\* info is returned as it then is, whatever fscanf's count was.
get_process_info(tbl, p) ==
    IF p \notin Pids \/ ~tbl[p].alive THEN EmptyInfo
    ELSE LET r1 == ScanInt(StatFile(tbl, p))
             r2 == ScanSkipString(r1.rest)
             r3 == ScanChar(r2.rest)
             r4 == ScanInt(r3.rest)
             n  == IF ~r1.ok THEN 0 ELSE IF ~r2.ok \/ ~r3.ok THEN 1
                   ELSE IF ~r4.ok THEN 2 ELSE 3
         IN  [pid   |-> IF n >= 1 THEN r1.val ELSE 0,
              state |-> IF n >= 2 THEN r3.val ELSE " ",
              ppid  |-> IF n >= 3 THEN r4.val ELSE 0]

\* The loop of is_in_tree: while (current != 0 && iterations++ < 1000).
RECURSIVE TreeWalk(_, _, _, _)
\* Mutant: the loop test written iterations++ <= limit, one hop too many.
TreeWalk_OneHopMore(tbl, root, current, iterations) ==
    IF current # 0 /\ iterations <= MaxHops
    THEN IF current = root THEN 1
         ELSE TreeWalk(tbl, root, get_process_info(tbl, current).ppid,
                       iterations + 1)
    ELSE 0

\* Mutant: the loop test written ++iterations < limit, one hop too few.
TreeWalk_PreIncrement(tbl, root, current, iterations) ==
    IF current # 0 /\ iterations + 1 < MaxHops
    THEN IF current = root THEN 1
         ELSE TreeWalk(tbl, root, get_process_info(tbl, current).ppid,
                       iterations + 1)
    ELSE 0

TreeWalk(tbl, root, current, iterations) ==
    IF current # 0 /\ iterations < MaxHops
    THEN IF current = root THEN 1
         ELSE TreeWalk(tbl, root, get_process_info(tbl, current).ppid,
                       iterations + 1)
    ELSE 0

\* The value of `iterations` when the loop of is_in_tree is left: how many
\* times its condition held, which is how many parent hops were made.
RECURSIVE WalkHops(_, _, _, _)
\* Mutant: the loop test written iterations++ <= limit.
WalkHops_OneHopMore(tbl, root, current, iterations) ==
    IF current # 0 /\ iterations <= MaxHops
    THEN IF current = root THEN iterations + 1
         ELSE WalkHops(tbl, root, get_process_info(tbl, current).ppid,
                       iterations + 1)
    ELSE iterations

WalkHops(tbl, root, current, iterations) ==
    IF current # 0 /\ iterations < MaxHops
    THEN IF current = root THEN iterations + 1
         ELSE WalkHops(tbl, root, get_process_info(tbl, current).ppid,
                       iterations + 1)
    ELSE iterations

\* Mutant: the walk started at the target's grandparent.
is_in_tree_FromGrandparent(tbl, root, target) ==
    IF root = target THEN 1
    ELSE LET info == get_process_info(tbl, target)
         IN  IF info.pid = 0 THEN 0
             ELSE TreeWalk(tbl, root, get_process_info(tbl, info.ppid).ppid, 0)

is_in_tree(tbl, root, target) ==
    IF root = target THEN 1
    ELSE LET info == get_process_info(tbl, target)
         IN  IF info.pid = 0 THEN 0
             ELSE TreeWalk(tbl, root, info.ppid, 0)

\* The pids a scan of /proc visits, in order: the entries that pass
\* if (!isdigit(*entry->d_name)) continue, through atoi.
NumericEntries == SelectSeq(ProcDir, LAMBDA e : isdigit(Head(e)))

CurrPids == [k \in 1..Len(NumericEntries) |-> atoi(NumericEntries[k])]

NoDir == <<"Error: Cannot access /proc directory">>

\* What a handler leaves behind: its stdout lines, its stderr lines, the int
\* it returns where it returns one, how often it called opendir, and how
\* many of those calls returned NULL.
Result(o, e, r, d) ==
    [out |-> o, err |-> e, ret |-> r, dirs |-> d, nodir |-> 0]

\* if (!dir) { print_error("Cannot access /proc directory", errno); return; }
\* after the handler's first opendir.
NoDirectory(r) ==
    [out |-> <<>>, err |-> <<NoDir>>, ret |-> r, dirs |-> 1, nodir |-> 1]

\* Mutant: the count leaving the target itself out.
count_defunct_descendants_NoSelf(tbl, p, dir_ok) ==
    IF ~dir_ok THEN NoDirectory(-1)
    ELSE Result(<<>>, <<>>,
           Len(SelectSeq(CurrPids, LAMBDA c :
                 LET info == get_process_info(tbl, c)
                 IN  /\ info.pid # 0
                     /\ is_in_tree(tbl, p, c) = 1
                     /\ info.state = "Z"
                     /\ c # p)), 1)

count_defunct_descendants(tbl, p, dir_ok) ==
    IF ~dir_ok THEN NoDirectory(-1)
    ELSE Result(<<>>, <<>>,
           Len(SelectSeq(CurrPids, LAMBDA c :
                 LET info == get_process_info(tbl, c)
                 IN  /\ info.pid # 0
                     /\ is_in_tree(tbl, p, c) = 1
                     /\ info.state = "Z")), 1)

list_non_direct_descendants(tbl, p, parent, dir_ok) ==
    IF ~dir_ok THEN NoDirectory(0)
    ELSE Result(SelectSeq(CurrPids, LAMBDA c :
                  LET info == get_process_info(tbl, c)
                  IN  /\ info.pid # 0
                      /\ is_in_tree(tbl, p, c) = 1
                      /\ info.ppid # parent
                      /\ c # p), <<>>, 0, 1)

list_immediate_descendants(tbl, p, dir_ok) ==
    IF ~dir_ok THEN NoDirectory(0)
    ELSE Result(SelectSeq(CurrPids, LAMBDA c :
                  LET info == get_process_info(tbl, c)
                  IN  info.pid # 0 /\ info.ppid = p), <<>>, 0, 1)

\* Mutant: the "exclude self" test, if (curr_pid == pid) continue, left out.
list_siblings_WithSelf(tbl, p, dir_ok) ==
    LET info == get_process_info(tbl, p)
    IN  IF info.pid = 0
        THEN Result(<<>>, <<<<"Error: Cannot get information for process", p>>>>, 0, 0)
        ELSE IF ~dir_ok THEN NoDirectory(0)
        ELSE Result(SelectSeq(CurrPids, LAMBDA c :
                      get_process_info(tbl, c).ppid = info.ppid), <<>>, 0, 1)

list_siblings(tbl, p, dir_ok) ==
    LET info == get_process_info(tbl, p)
    IN  IF info.pid = 0
        THEN Result(<<>>, <<<<"Error: Cannot get information for process", p>>>>, 0, 0)
        ELSE IF ~dir_ok THEN NoDirectory(0)
        ELSE Result(SelectSeq(CurrPids, LAMBDA c :
                      /\ c # p
                      /\ get_process_info(tbl, c).ppid = info.ppid), <<>>, 0, 1)

\* Mutant: the same-parent test left out.
list_defunct_siblings_AnyParent(tbl, p, dir_ok) ==
    LET info == get_process_info(tbl, p)
    IN  IF info.pid = 0
        THEN Result(<<>>, <<<<"Error: Cannot get information for process", p>>>>, 0, 0)
        ELSE IF ~dir_ok THEN NoDirectory(0)
        ELSE Result(SelectSeq(CurrPids, LAMBDA c :
                      LET curr_info == get_process_info(tbl, c)
                      IN  c # p /\ curr_info.state = "Z"), <<>>, 0, 1)

list_defunct_siblings(tbl, p, dir_ok) ==
    LET info == get_process_info(tbl, p)
    IN  IF info.pid = 0
        THEN Result(<<>>, <<<<"Error: Cannot get information for process", p>>>>, 0, 0)
        ELSE IF ~dir_ok THEN NoDirectory(0)
        ELSE Result(SelectSeq(CurrPids, LAMBDA c :
                      LET curr_info == get_process_info(tbl, c)
                      IN  /\ c # p
                          /\ curr_info.ppid = info.ppid
                          /\ curr_info.state = "Z"), <<>>, 0, 1)

list_defunct_descendants(tbl, p, dir_ok) ==
    IF ~dir_ok THEN NoDirectory(0)
    ELSE Result(SelectSeq(CurrPids, LAMBDA c :
                  LET info == get_process_info(tbl, c)
                  IN  /\ info.pid # 0
                      /\ is_in_tree(tbl, p, c) = 1
                      /\ info.state = "Z"
                      /\ c # p), <<>>, 0, 1)

\* The outer loop of list_grandchildren from its k-th entry on, `opened`
\* inner directories having been opened so far; the fail_at-th inner
\* opendir fails (0: none does).
RECURSIVE GrandchildrenFrom(_, _, _, _, _)
GrandchildrenFrom(tbl, p, k, opened, fail_at) ==
    IF k > Len(CurrPids) THEN Result(<<>>, <<>>, 0, 1 + opened)
    ELSE LET child_pid == CurrPids[k]
         IN  IF get_process_info(tbl, child_pid).ppid # p
             THEN GrandchildrenFrom(tbl, p, k + 1, opened, fail_at)
             ELSE IF opened + 1 = fail_at
             THEN [out |-> <<>>,
                   err |-> <<<<"Error: Cannot access /proc directory for grandchildren">>>>,
                   ret |-> 0, dirs |-> 2 + opened, nodir |-> 1]
             ELSE LET inner == SelectSeq(CurrPids, LAMBDA g :
                                 get_process_info(tbl, g).ppid = child_pid)
                      more  == GrandchildrenFrom(tbl, p, k + 1, opened + 1, fail_at)
                  IN  [more EXCEPT !.out = inner \o more.out]

list_grandchildren(tbl, p, dir_ok, fail_at) ==
    IF ~dir_ok THEN NoDirectory(0)
    ELSE GrandchildrenFrom(tbl, p, 1, 0, fail_at)

print_status(tbl, p) ==
    LET info == get_process_info(tbl, p)
    IN  IF info.pid = 0
        THEN Result(<<>>, <<<<"Error: Cannot get status for process", p>>>>, 0, 0)
        ELSE Result(<<<<"Process", p, "is",
                        IF info.state = "Z" THEN "Defunct" ELSE "Not Defunct">>>>,
                    <<>>, 0, 0)

print_basic_info(tbl, p) ==
    LET info == get_process_info(tbl, p)
    IN  IF info.pid = 0
        THEN Result(<<>>, <<<<"Error: Cannot get information for process", p>>>>, 0, 0)
        ELSE Result(<<<<"PID:", info.pid, "PPID:", info.ppid>>>>, <<>>, 0, 0)

(***************************************************************************)
(* Process tables.                                                         *)
(***************************************************************************)
PlainComm == << <<"s", "h">> >>

\* Names with blanks in them: "a b", and "a Z <k>" for a pid k.
OddComms == { << <<"a">>, <<"b">> >> } \cup
            { << <<"a">>, <<"Z">>, Dec(k) >> : k \in 1..NumPids }

\* A pid without a process: its /proc entry may still be listed, its stat
\* file cannot be opened.
GoneRec == [alive |-> FALSE, comm |-> PlainComm, state |-> "S", ppid |-> 0]

InitRec == [alive |-> TRUE, comm |-> PlainComm, state |-> "S", ppid |-> 0]

PlainRecs(states) ==
    {GoneRec} \cup
    {[alive |-> TRUE, comm |-> PlainComm, state |-> s, ppid |-> q] :
        s \in states, q \in 0..NumPids}

\* Following the kernel's parent links from p for at most `fuel` hops: 0 when
\* the chain ends (at parent 0 or at a parent that is gone).
RECURSIVE Up(_, _, _)
Up(tbl, p, fuel) ==
    IF p = 0 \/ ~tbl[p].alive THEN 0
    ELSE IF fuel = 0 THEN p
    ELSE Up(tbl, tbl[p].ppid, fuel - 1)

\* The kernel never makes a process its own ancestor.
Acyclic(tbl) == \A p \in Pids : Up(tbl, p, MaxPid) = 0

\* Tables whose processes all have plain names; pid 1 is init and the spare
\* pids are free.
PlainTables(states) ==
    { t \in { [p \in Pids |-> IF p = 1 THEN InitRec
                             ELSE IF p > NumPids THEN GoneRec ELSE f[p]] :
                f \in [2..NumPids -> PlainRecs(states)] } : Acyclic(t) }

\* ... and those in which up to k live processes took a name with blanks.
RECURSIVE WithOddNames(_, _)
WithOddNames(T, k) ==
    IF k = 0 THEN T
    ELSE WithOddNames(
           T \cup { [t EXCEPT ![p].comm = c] :
                      t \in T, p \in 2..NumPids, c \in OddComms },
           k - 1)

OddTables(states) ==
    { t \in WithOddNames(PlainTables(states), MaxOddNames) :
        \A p \in Pids : t[p].alive \/ t[p] = GoneRec }

Readable(tbl, p) == get_process_info(tbl, p).pid # 0

(***************************************************************************)
(* The query functions on a process table that does not change while they  *)
(* run.  main calls a handler only for a target it found in the tree, and  *)
(* such a target's record was readable (line 58, line 150).                *)
(***************************************************************************)
QueryStates == {"S", "Z"}

\* The variables before the program has done anything.
Fresh ==
    /\ fn = "none" /\ pid = 0 /\ other = 0 /\ ret = -2
    /\ out = <<>> /\ err = <<>>
    /\ dirpos = 0 /\ descendants = <<>> /\ i = 0 /\ missed = 0
    /\ killed_any = 0
    /\ sigs = <<>> /\ seen = <<>> /\ opens = 0 /\ nodir = 0 /\ env = 0

NULL == <<>>

NoMain ==
    /\ argv = <<>> /\ argc = 0
    /\ root_pid = 0 /\ target_pid = 0 /\ option = NULL /\ rc = -1

InitQuery ==
    /\ table \in OddTables(QueryStates) /\ table0 = table
    /\ pc = "idle"
    /\ NoMain
    /\ Fresh

Return(name, p, q, res) ==
    /\ pc' = "done"
    /\ fn' = name /\ pid' = p /\ other' = q
    /\ out' = out \o res.out /\ err' = err \o res.err /\ ret' = res.ret
    /\ opens' = opens + res.dirs /\ nodir' = nodir + res.nodir
    /\ UNCHANGED <<table, mainVars, scanVars, logVars, env>>

Q_is_in_tree ==
    /\ pc = "idle"
    /\ \E r \in Pids, x \in Pids :
        Return("is_in_tree", r, x, Result(<<>>, <<>>, is_in_tree(table, r, x), 0))

Q_count_defunct_descendants ==
    /\ pc = "idle"
    /\ \E t \in Pids, dir_ok \in BOOLEAN : Readable(table, t) /\
        Return("count_defunct_descendants", t, 0,
               count_defunct_descendants(table, t, dir_ok))

Q_list_non_direct_descendants ==
    /\ pc = "idle"
    /\ \E t \in Pids, dir_ok \in BOOLEAN : Readable(table, t) /\
        Return("list_non_direct_descendants", t, 0,
               list_non_direct_descendants(table, t, t, dir_ok))

Q_list_immediate_descendants ==
    /\ pc = "idle"
    /\ \E t \in Pids, dir_ok \in BOOLEAN : Readable(table, t) /\
        Return("list_immediate_descendants", t, 0,
               list_immediate_descendants(table, t, dir_ok))

Q_list_siblings ==
    /\ pc = "idle"
    /\ \E t \in Pids, dir_ok \in BOOLEAN : Readable(table, t) /\
        Return("list_siblings", t, 0, list_siblings(table, t, dir_ok))

Q_list_defunct_siblings ==
    /\ pc = "idle"
    /\ \E t \in Pids, dir_ok \in BOOLEAN : Readable(table, t) /\
        Return("list_defunct_siblings", t, 0,
               list_defunct_siblings(table, t, dir_ok))

Q_list_defunct_descendants ==
    /\ pc = "idle"
    /\ \E t \in Pids, dir_ok \in BOOLEAN : Readable(table, t) /\
        Return("list_defunct_descendants", t, 0,
               list_defunct_descendants(table, t, dir_ok))

Q_list_grandchildren ==
    /\ pc = "idle"
    /\ \E t \in Pids, dir_ok \in BOOLEAN, fail_at \in 0..NumPids :
        Readable(table, t) /\
        Return("list_grandchildren", t, 0,
               list_grandchildren(table, t, dir_ok, fail_at))

NextQuery ==
    \/ Q_is_in_tree
    \/ Q_count_defunct_descendants
    \/ Q_list_non_direct_descendants
    \/ Q_list_immediate_descendants
    \/ Q_list_siblings
    \/ Q_list_defunct_siblings
    \/ Q_list_defunct_descendants
    \/ Q_list_grandchildren

SpecQuery == InitQuery /\ [][NextQuery]_vars

(***************************************************************************)
(* The kernel's side of kill(), fork(), exit() and wait().                 *)
(***************************************************************************)
\* Process p ends: it stays as a zombie until it is reaped, and its children
\* become children of init.
Die(tbl, p) ==
    [q \in Pids |->
        IF q = p THEN [tbl[q] EXCEPT !.state = "Z"]
        ELSE IF tbl[q].alive /\ tbl[q].ppid = p THEN [tbl[q] EXCEPT !.ppid = 1]
        ELSE tbl[q]]

\* What a delivered signal does.  Nothing can kill or stop init, and a
\* zombie is already dead.
Deliver(tbl, p, sig) ==
    IF p = 1 \/ tbl[p].state = "Z" THEN tbl
    ELSE IF sig = "SIGKILL" THEN Die(tbl, p)
    ELSE IF sig = "SIGSTOP" THEN [tbl EXCEPT ![p].state = "T"]
    ELSE IF tbl[p].state = "T" THEN [tbl EXCEPT ![p].state = "S"]
    ELSE tbl

\* kill(p, sig): -1 with ESRCH when p is gone, -1 with EPERM when the caller
\* may not signal p, else 0 and the signal is delivered.
kill(tbl, p, sig, permitted) ==
    IF p \notin Pids \/ ~tbl[p].alive
    THEN [ret |-> -1, errno |-> "ESRCH", table |-> tbl]
    ELSE IF ~permitted
    THEN [ret |-> -1, errno |-> "EPERM", table |-> tbl]
    ELSE [ret |-> 0, errno |-> "", table |-> Deliver(tbl, p, sig)]

\* Whether the caller may signal p depends on who runs the program and on
\* who owns p: a process of another user is refused with EPERM.
MayPermit(p) == BOOLEAN

(***************************************************************************)
(* The bulk operations, one loop iteration per step.                       *)
(***************************************************************************)
BulkFns == {"kill_descendants", "stop_descendants", "continue_descendants",
            "kill_zombie_parents"}

\* The entry readdir returns next, and whether it returns NULL instead.
Entry == ProcDir[dirpos]

AtEnd == dirpos > Len(ProcDir)

\* if (!isdigit(*entry->d_name)) continue; ... if (info.pid == 0) continue;
Fetched(e) ==
    isdigit(Head(e)) /\ get_process_info(table, atoi(e)).pid # 0

\* Mutant: the test without "&& curr_pid != pid".
IsOtherInTree_NoSelfTest(curr_pid) ==
    is_in_tree(table, pid, curr_pid) = 1

\* if (is_in_tree(pid, curr_pid) && curr_pid != pid)
IsOtherInTree(curr_pid) ==
    is_in_tree(table, pid, curr_pid) = 1 /\ curr_pid # pid

Signal(p, sig, r, cause, pass) ==
    [pid |-> p, sig |-> sig, ret |-> r, cause |-> cause, pass |-> pass]

Seen(p, pass) == [pid |-> p, pass |-> pass]

\* DIR *dir = opendir("/proc"); if (!dir) { print_error(...); return; }
\* at the head of each of the four bulk operations.
OpenProc ==
    /\ pc = "open"
    /\ opens' = opens + 1
    /\ \E dir_ok \in BOOLEAN :
        IF dir_ok
        THEN /\ pc' = "scan" /\ dirpos' = 1 /\ err' = err
             /\ nodir' = nodir
        ELSE /\ pc' = "done" /\ dirpos' = dirpos /\ err' = Append(err, NoDir)
             /\ nodir' = nodir + 1
    /\ UNCHANGED <<table, mainVars, fn, pid, other, ret, out, descendants, i,
                   missed, killed_any, logVars, env>>

\* Mutant: the buffer test written descendant_count <= capacity.
HasRoom_OneTooMany(list) == Len(list) <= MaxDescendants

\* if (descendant_count < 1024)
HasRoom(list) == Len(list) < MaxDescendants

\* kill_descendants, first loop: one entry of /proc.
SkCollect ==
    /\ pc = "scan" /\ fn = "kill_descendants" /\ ~AtEnd
    /\ LET curr_pid == atoi(Entry)
       IN  IF ~(Fetched(Entry) /\ IsOtherInTree(curr_pid))
           THEN /\ dirpos' = dirpos + 1
                /\ UNCHANGED <<pc, descendants, i, err, seen>>
           ELSE IF HasRoom(descendants)
           THEN /\ descendants' = Append(descendants, curr_pid)
                /\ seen' = Append(seen, Seen(curr_pid, 1))
                /\ dirpos' = dirpos + 1
                /\ UNCHANGED <<pc, i, err>>
           ELSE /\ err' = Append(err,
                    <<"Warning: Too many descendants; some may be missed">>)
                /\ seen' = Append(seen, Seen(curr_pid, 1))
                /\ pc' = "kill"
                /\ i' = Len(descendants) - 1
                /\ UNCHANGED <<dirpos, descendants>>
    /\ UNCHANGED <<table, mainVars, fn, pid, other, ret, out, missed,
                   killed_any, sigs, dirVars, env>>

\* kill_descendants: readdir returns NULL, closedir, int i = descendant_count - 1.
SkCollectEnd ==
    /\ pc = "scan" /\ fn = "kill_descendants" /\ AtEnd
    /\ pc' = "kill"
    /\ i' = Len(descendants) - 1
    /\ UNCHANGED <<table, mainVars, callVars, dirpos, descendants, missed,
                   killed_any, logVars, dirVars, env>>

\* Mutant: the second loop left at the first kill() that fails.
SkKillBody_StopOnFailure(tbl, list, idx, permitted) ==
    LET curr_pid == list[idx + 1]
        k == kill(tbl, curr_pid, "SIGKILL", permitted)
    IN  [table |-> k.table,
         sig   |-> Signal(curr_pid, "SIGKILL", k.ret, curr_pid, 1),
         out   |-> IF k.ret = -1 THEN <<>>
                   ELSE << <<"Killed descendant", curr_pid>> >>,
         err   |-> IF k.ret = -1
                   THEN << <<"Error: Failed to kill descendant", curr_pid, k.errno>> >>
                   ELSE <<>>,
         i     |-> IF k.ret = -1 THEN -1 ELSE idx - 1]

\* Mutant: the second loop walking the array forwards.
SkKillBody_Forwards(tbl, list, idx, permitted) ==
    LET curr_pid == list[Len(list) - idx]
        k == kill(tbl, curr_pid, "SIGKILL", permitted)
    IN  [table |-> k.table,
         sig   |-> Signal(curr_pid, "SIGKILL", k.ret, curr_pid, 1),
         out   |-> IF k.ret = -1 THEN <<>>
                   ELSE << <<"Killed descendant", curr_pid>> >>,
         err   |-> IF k.ret = -1
                   THEN << <<"Error: Failed to kill descendant", curr_pid, k.errno>> >>
                   ELSE <<>>,
         i     |-> idx - 1]

\* The body of kill_descendants' second loop; i is how the C code indexes
\* descendants[].
SkKillBody(tbl, list, idx, permitted) ==
    LET curr_pid == list[idx + 1]
        k == kill(tbl, curr_pid, "SIGKILL", permitted)
    IN  [table |-> k.table,
         sig   |-> Signal(curr_pid, "SIGKILL", k.ret, curr_pid, 1),
         out   |-> IF k.ret = -1 THEN <<>>
                   ELSE << <<"Killed descendant", curr_pid>> >>,
         err   |-> IF k.ret = -1
                   THEN << <<"Error: Failed to kill descendant", curr_pid, k.errno>> >>
                   ELSE <<>>,
         i     |-> idx - 1]

\* kill_descendants, second loop: for (int i = descendant_count - 1; i >= 0; i--)
SkKill ==
    /\ pc = "kill" /\ fn = "kill_descendants" /\ i >= 0
    /\ \E permitted \in MayPermit(descendants[i + 1]) :
        LET b == SkKillBody(table, descendants, i, permitted)
        IN  /\ table' = b.table
            /\ sigs' = Append(sigs, b.sig)
            /\ out' = out \o b.out
            /\ err' = err \o b.err
            /\ i' = b.i
    /\ UNCHANGED <<pc, mainVars, fn, pid, other, ret, dirpos, descendants,
                   missed, killed_any, seen, dirVars, env>>

\* kill_descendants: dir = opendir("/proc"); if (dir) { int missed = 0; ...
\* Nothing is printed when this opendir fails.
SkReopen ==
    /\ pc = "kill" /\ fn = "kill_descendants" /\ i < 0
    /\ opens' = opens + 1
    /\ \E dir_ok \in BOOLEAN :
        IF dir_ok
        THEN /\ pc' = "rescan" /\ dirpos' = 1 /\ missed' = 0
             /\ nodir' = nodir
        ELSE /\ pc' = "done" /\ dirpos' = dirpos /\ missed' = missed
             /\ nodir' = nodir + 1
    /\ UNCHANGED <<table, mainVars, callVars, descendants, i, killed_any,
                   logVars, env>>

\* kill_descendants, re-scan: one entry of /proc.
SkRescan ==
    /\ pc = "rescan" /\ fn = "kill_descendants" /\ ~AtEnd
    /\ dirpos' = dirpos + 1
    /\ LET curr_pid == atoi(Entry)
       IN  IF ~(Fetched(Entry) /\ IsOtherInTree(curr_pid))
           THEN UNCHANGED <<table, missed, sigs, seen, out, err>>
           ELSE \E permitted \in MayPermit(curr_pid) :
                LET k == kill(table, curr_pid, "SIGKILL", permitted)
                IN  /\ missed' = missed + 1
                    /\ seen' = Append(seen, Seen(curr_pid, 2))
                    /\ table' = k.table
                    /\ sigs' = Append(sigs,
                                 Signal(curr_pid, "SIGKILL", k.ret, curr_pid, 2))
                    /\ IF k.ret = -1
                       THEN /\ err' = Append(err,
                                 <<"Error: Failed to kill missed descendant",
                                   curr_pid, k.errno>>)
                            /\ out' = out
                       ELSE /\ out' = Append(out,
                                 <<"Killed missed descendant", curr_pid>>)
                            /\ err' = err
    /\ UNCHANGED <<pc, mainVars, fn, pid, other, ret, descendants, i,
                   killed_any, dirVars, env>>

\* kill_descendants: the re-scan is over; if (missed > 0) the note; closedir.
SkRescanEnd ==
    /\ pc = "rescan" /\ fn = "kill_descendants" /\ AtEnd
    /\ pc' = "done"
    /\ err' = IF missed > 0
              THEN Append(err, <<"Note: descendants were missed in first pass and killed in second", missed>>)
              ELSE err
    /\ UNCHANGED <<table, mainVars, fn, pid, other, ret, out, scanVars,
                   logVars, dirVars, env>>

\* Mutant: continue_descendants without "&& info.state == 'T'".
InWantedState_Any(sig, info) == sig \in {"SIGSTOP", "SIGCONT"}

\* continue_descendants adds && info.state == 'T' to stop_descendants' test.
InWantedState(sig, info) == sig = "SIGCONT" => info.state = "T"

\* stop_descendants (sig = SIGSTOP) and continue_descendants (SIGCONT): one
\* entry of /proc.  continue_descendants also wants info.state == 'T'.
ScanAndSignal(name, sig, said, failed) ==
    /\ pc = "scan" /\ fn = name /\ ~AtEnd
    /\ dirpos' = dirpos + 1
    /\ LET curr_pid == atoi(Entry)
           info == get_process_info(table, curr_pid)
       IN  IF ~(/\ Fetched(Entry)
                /\ IsOtherInTree(curr_pid)
                /\ InWantedState(sig, info))
           THEN UNCHANGED <<table, sigs, seen, out, err>>
           ELSE \E permitted \in MayPermit(curr_pid) :
                LET k == kill(table, curr_pid, sig, permitted)
                IN  /\ seen' = Append(seen, Seen(curr_pid, 1))
                    /\ table' = k.table
                    /\ sigs' = Append(sigs, Signal(curr_pid, sig, k.ret, curr_pid, 1))
                    /\ IF k.ret = -1
                       THEN err' = Append(err, <<failed, k.errno>>) /\ out' = out
                       ELSE out' = Append(out, <<said, curr_pid>>) /\ err' = err
    /\ UNCHANGED <<pc, mainVars, fn, pid, other, ret, descendants, i, missed,
                   killed_any, dirVars, env>>

StScan ==
    ScanAndSignal("stop_descendants", "SIGSTOP", "Stopped descendant",
                  "Error: Failed to stop descendant process")

DtScan ==
    ScanAndSignal("continue_descendants", "SIGCONT", "Continued descendant",
                  "Error: Failed to continue descendant process")

\* stop_descendants, continue_descendants: readdir returns NULL; closedir.
StDtEnd ==
    /\ pc = "scan" /\ fn \in {"stop_descendants", "continue_descendants"}
    /\ AtEnd
    /\ pc' = "done"
    /\ UNCHANGED <<table, mainVars, callVars, scanVars, logVars, dirVars, env>>

\* kill_zombie_parents: one entry of /proc.
PzScan ==
    /\ pc = "scan" /\ fn = "kill_zombie_parents" /\ ~AtEnd
    /\ dirpos' = dirpos + 1
    /\ LET curr_pid == atoi(Entry)
           info == get_process_info(table, curr_pid)
       IN  IF ~(/\ Fetched(Entry)
                /\ is_in_tree(table, pid, curr_pid) = 1
                /\ info.state = "Z" /\ info.ppid # 0)
           THEN UNCHANGED <<table, sigs, seen, out, err, killed_any>>
           ELSE \E permitted \in MayPermit(info.ppid) :
                LET parent_to_kill == info.ppid
                    k == kill(table, parent_to_kill, "SIGKILL", permitted)
                IN  /\ seen' = Append(seen, Seen(curr_pid, 1))
                    /\ table' = k.table
                    /\ sigs' = Append(sigs,
                          Signal(parent_to_kill, "SIGKILL", k.ret, curr_pid, 1))
                    /\ IF k.ret = -1
                       THEN /\ err' = Append(err,
                                 <<"Error: Failed to kill parent of zombie",
                                   parent_to_kill, curr_pid, k.errno>>)
                            /\ out' = out
                            /\ killed_any' = killed_any
                       ELSE /\ out' = Append(out,
                                 <<"Killed parent of zombie process",
                                   parent_to_kill, curr_pid>>)
                            /\ err' = err
                            /\ killed_any' = 1
    /\ UNCHANGED <<pc, mainVars, fn, pid, other, ret, descendants, i, missed,
                   dirVars, env>>

\* kill_zombie_parents: closedir; if (!killed_any) the "No zombie" line.
PzEnd ==
    /\ pc = "scan" /\ fn = "kill_zombie_parents" /\ AtEnd
    /\ pc' = "done"
    /\ out' = IF killed_any = 0
              THEN Append(out, <<"No zombie processes found among descendants of", pid>>)
              ELSE out
    /\ UNCHANGED <<table, mainVars, fn, pid, other, ret, err, scanVars,
                   logVars, dirVars, env>>

(***************************************************************************)
(* What happens to the process table while a bulk operation runs.          *)
(***************************************************************************)
Changing == pc \in {"open", "scan", "kill", "rescan"} /\ env < MaxEnvSteps

\* A live process forks: the child takes a free pid and its parent's name.
Fork ==
    /\ Changing
    /\ \E parent \in Pids, child \in Pids :
        /\ table[parent].alive /\ table[parent].state # "Z"
        /\ ~table[child].alive
        /\ table' = [table EXCEPT ![child] =
                        [alive |-> TRUE, comm |-> table[parent].comm,
                         state |-> "S", ppid |-> parent]]
    /\ env' = env + 1
    /\ UNCHANGED <<pc, mainVars, callVars, scanVars, logVars, dirVars>>

\* A process other than init exits on its own.
Exit ==
    /\ Changing
    /\ \E p \in Pids \ {1} :
        /\ table[p].alive /\ table[p].state # "Z"
        /\ table' = Die(table, p)
    /\ env' = env + 1
    /\ UNCHANGED <<pc, mainVars, callVars, scanVars, logVars, dirVars>>

\* A zombie is reaped by its parent: its pid is free again.
Reap ==
    /\ Changing
    /\ \E p \in Pids \ {1} :
        /\ table[p].alive /\ table[p].state = "Z"
        /\ table' = [table EXCEPT ![p] = GoneRec]
    /\ env' = env + 1
    /\ UNCHANGED <<pc, mainVars, callVars, scanVars, logVars, dirVars>>

\* Tables as the kernel holds them at one instant: every process but init
\* has a live parent that is no zombie, and all names are plain.
DynStates == {"S", "Z", "T"}

KernelTables(states) ==
    { t \in PlainTables(states) :
        \A p \in Pids \ {1} :
            t[p].alive => /\ t[p].ppid # 0
                          /\ t[t[p].ppid].alive
                          /\ t[t[p].ppid].state # "Z" }

DynTables == KernelTables(DynStates)

\* main has found the target in the tree and calls a bulk operation on it.
InitDyn ==
    /\ table \in DynTables /\ table0 = table
    /\ pc = "open"
    /\ NoMain
    /\ fn \in BulkFns
    /\ pid \in { p \in Pids : table[p].alive }
    /\ other = 0 /\ ret = -2
    /\ out = <<>> /\ err = <<>>
    /\ dirpos = 0 /\ descendants = <<>> /\ i = 0 /\ missed = 0
    /\ killed_any = 0
    /\ sigs = <<>> /\ seen = <<>> /\ opens = 0 /\ nodir = 0 /\ env = 0

NextDyn ==
    \/ OpenProc
    \/ SkCollect
    \/ SkCollectEnd
    \/ SkKill
    \/ SkReopen
    \/ SkRescan
    \/ SkRescanEnd
    \/ StScan
    \/ DtScan
    \/ StDtEnd
    \/ PzScan
    \/ PzEnd
    \/ Fork
    \/ Exit
    \/ Reap

SpecDyn == InitDyn /\ [][NextDyn]_vars

(***************************************************************************)
(* kill_descendants alone on a crowded table: the spare pids hold          *)
(* processes too, so that a target other than init can have more           *)
(* descendants than the array holds.  No other program changes the table.  *)
(***************************************************************************)
CrowdStates == {"S", "Z"}

CrowdRecs ==
    {GoneRec} \cup
    {[alive |-> TRUE, comm |-> PlainComm, state |-> s, ppid |-> q] :
        s \in CrowdStates, q \in Pids}

CrowdTables ==
    { t \in { [p \in Pids |-> IF p = 1 THEN InitRec ELSE f[p]] :
                f \in [Pids \ {1} -> CrowdRecs] } :
        /\ Acyclic(t)
        /\ \A p \in Pids \ {1} :
              t[p].alive => /\ t[t[p].ppid].alive
                            /\ t[t[p].ppid].state # "Z" }

InitCrowd ==
    /\ table \in CrowdTables /\ table0 = table
    /\ pc = "open"
    /\ NoMain
    /\ fn = "kill_descendants"
    /\ pid \in { p \in Pids : table[p].alive }
    /\ other = 0 /\ ret = -2
    /\ out = <<>> /\ err = <<>>
    /\ dirpos = 0 /\ descendants = <<>> /\ i = 0 /\ missed = 0
    /\ killed_any = 0
    /\ sigs = <<>> /\ seen = <<>> /\ opens = 0 /\ nodir = 0 /\ env = 0

NextCrowd ==
    \/ OpenProc
    \/ SkCollect
    \/ SkCollectEnd
    \/ SkKill
    \/ SkReopen
    \/ SkRescan
    \/ SkRescanEnd

SpecCrowd == InitCrowd /\ [][NextCrowd]_vars

(***************************************************************************)
(* main: the command line, the checks before any operation, the dispatch   *)
(* on the option and the exit code.  The process table changes only by the *)
(* program's own signals.                                                  *)
(***************************************************************************)
Options == {"-dc", "-ds", "-id", "-lg", "-lz", "-df", "-gc", "-do", "--pz",
            "-sk", "-st", "-dt", "-rp"}

\* Third arguments that are no option of the program.
OtherOptions == {"-zz", ""}

\* Texts given as a pid: the pids, and texts atoi turns into 0, a negative
\* number, and a pid in spite of what follows its digits.
PidTexts ==
    { Dec(p) : p \in 1..NumPids } \cup { <<"0">>, <<"-", "1">>, Dec(2) \o <<"x">> }

\* The command lines: one, two, three and four arguments.
Argvs ==
    LET two == { <<r, t>> : r \in PidTexts, t \in PidTexts }
    IN  { <<Dec(1)>> } \cup two
        \cup { a \o <<o>> : a \in two, o \in Options \cup OtherOptions }
        \cup { <<Dec(1), Dec(2), o, o>> : o \in {"-id", "-zz"} }

MainStates == {"S", "Z"}

InitMain ==
    /\ table \in KernelTables(MainStates) /\ table0 = table
    /\ pc = "main"
    /\ argv \in Argvs /\ argc = Len(argv) + 1
    /\ root_pid = 0 /\ target_pid = 0 /\ option = NULL /\ rc = -1
    /\ Fresh

\* Mutant: the test of the two pids written with < in place of <=.
BadPids_ZeroAllowed(r, t) == r < 0 \/ t < 0

\* if (root_pid <= 0 || target_pid <= 0)
BadPids(r, t) == r <= 0 \/ t <= 0

\* Mutant: the notice printed whether or not an option was given.
Notice_Always(o, t, r) ==
    << <<"Notice: Process does not belong to the tree rooted at", t, r>> >>

\* if (option) printf("Notice: ...")
Notice(o, t, r) ==
    IF o # NULL
    THEN << <<"Notice: Process does not belong to the tree rooted at", t, r>> >>
    ELSE <<>>

\* main, lines 38-70: the argument count, the two pids, the root's record
\* and the tree test.
main_check ==
    /\ pc = "main"
    /\ IF argc < 3 \/ argc > 4
       THEN /\ err' = err \o << <<"Error: Incorrect number of arguments">>,
                               <<"Usage: [root_process] [process_id] [Option]">>,
                               <<"Example: 1234 5678 -id">> >>
            /\ rc' = 1 /\ pc' = "exit"
            /\ UNCHANGED <<root_pid, target_pid, option, out>>
       ELSE LET r == atoi(argv[1])
                t == atoi(argv[2])
                o == IF argc = 4 THEN <<argv[3]>> ELSE NULL
            IN  /\ root_pid' = r /\ target_pid' = t /\ option' = o
                /\ IF BadPids(r, t)
                   THEN /\ err' = err \o
                             << <<"Error: Process IDs must be positive integers">>,
                                <<"Got root_pid, target_pid", r, t>> >>
                        /\ rc' = 1 /\ pc' = "exit" /\ out' = out
                   ELSE IF get_process_info(table, r).pid = 0
                   THEN /\ err' = Append(err,
                             <<"Error: Root process does not exist or is inaccessible", r>>)
                        /\ rc' = 1 /\ pc' = "exit" /\ out' = out
                   ELSE IF is_in_tree(table, r, t) = 0
                   THEN /\ out' = out \o Notice(o, t, r)
                        /\ rc' = 0 /\ pc' = "exit" /\ err' = err
                   ELSE /\ pc' = "dispatch"
                        /\ UNCHANGED <<rc, out, err>>
    /\ UNCHANGED <<table, table0, argv, argc, fn, pid, other, ret, scanVars, logVars,
                   dirVars, env>>

Dispatch(o) == pc = "dispatch" /\ option = o

\* if (!option) { print_basic_info(target_pid); return 0; }
main_basic_info ==
    /\ Dispatch(NULL)
    /\ Return("print_basic_info", target_pid, 0,
              print_basic_info(table, target_pid))

\* -dc: the count is printed when it is not -1.
main_dc ==
    /\ Dispatch(<<"-dc">>)
    /\ \E dir_ok \in BOOLEAN :
        LET r == count_defunct_descendants(table, target_pid, dir_ok)
        IN  Return("count_defunct_descendants", target_pid, 0,
                   [r EXCEPT !.out =
                       IF r.ret >= 0
                       THEN << <<"Number of defunct descendants:", r.ret>> >>
                       ELSE <<>>])

main_ds ==
    /\ Dispatch(<<"-ds">>)
    /\ \E dir_ok \in BOOLEAN :
        Return("list_non_direct_descendants", target_pid, 0,
               list_non_direct_descendants(table, target_pid, target_pid, dir_ok))

main_id ==
    /\ Dispatch(<<"-id">>)
    /\ \E dir_ok \in BOOLEAN :
        Return("list_immediate_descendants", target_pid, 0,
               list_immediate_descendants(table, target_pid, dir_ok))

main_lg ==
    /\ Dispatch(<<"-lg">>)
    /\ \E dir_ok \in BOOLEAN :
        Return("list_siblings", target_pid, 0,
               list_siblings(table, target_pid, dir_ok))

main_lz ==
    /\ Dispatch(<<"-lz">>)
    /\ \E dir_ok \in BOOLEAN :
        Return("list_defunct_siblings", target_pid, 0,
               list_defunct_siblings(table, target_pid, dir_ok))

main_df ==
    /\ Dispatch(<<"-df">>)
    /\ \E dir_ok \in BOOLEAN :
        Return("list_defunct_descendants", target_pid, 0,
               list_defunct_descendants(table, target_pid, dir_ok))

main_gc ==
    /\ Dispatch(<<"-gc">>)
    /\ \E dir_ok \in BOOLEAN, fail_at \in 0..NumPids :
        Return("list_grandchildren", target_pid, 0,
               list_grandchildren(table, target_pid, dir_ok, fail_at))

main_do ==
    /\ Dispatch(<<"-do">>)
    /\ Return("print_status", target_pid, 0, print_status(table, target_pid))

\* --pz, -sk, -st, -dt: the bulk operation is entered.
BulkOf(o) ==
    CASE o = "--pz" -> "kill_zombie_parents"
      [] o = "-sk"  -> "kill_descendants"
      [] o = "-st"  -> "stop_descendants"
      [] o = "-dt"  -> "continue_descendants"

main_bulk ==
    /\ pc = "dispatch"
    /\ option # NULL /\ option[1] \in {"--pz", "-sk", "-st", "-dt"}
    /\ fn' = BulkOf(option[1]) /\ pid' = target_pid
    /\ pc' = "open"
    /\ UNCHANGED <<table, mainVars, other, ret, out, err, scanVars, logVars,
                   dirVars, env>>

\* -rp: kill(root_pid, SIGKILL), and what is printed after it.
main_rp ==
    /\ Dispatch(<<"-rp">>)
    /\ \E permitted \in MayPermit(root_pid) :
        LET k == kill(table, root_pid, "SIGKILL", permitted)
        IN  /\ table' = k.table
            /\ sigs' = Append(sigs, Signal(root_pid, "SIGKILL", k.ret, root_pid, 0))
            /\ IF k.ret = -1
               THEN /\ err' = Append(err,
                         <<"Error: Failed to kill root process", k.errno>>)
                    /\ out' = out
               ELSE /\ out' = Append(out,
                         <<"Root process terminated successfully", root_pid>>)
                    /\ err' = err
    /\ pc' = "done"
    /\ UNCHANGED <<mainVars, fn, pid, other, ret, scanVars, seen, dirVars, env>>

\* The last else of the dispatch: return 1.
main_invalid_option ==
    /\ pc = "dispatch"
    /\ option # NULL /\ option[1] \notin Options
    /\ err' = err \o << <<"Error: Invalid option", option[1]>>,
                        <<"Valid options: -dc, -ds, -id, -lg, -lz, -df, -gc, -do, --pz, -sk, -st, -dt, -rp">> >>
    /\ rc' = 1 /\ pc' = "exit"
    /\ UNCHANGED <<table, table0, argv, argc, root_pid, target_pid, option, fn, pid,
                   other, ret, out, scanVars, logVars, dirVars, env>>

\* The operation has returned: return 0.
main_return ==
    /\ pc = "done"
    /\ rc' = 0 /\ pc' = "exit"
    /\ UNCHANGED <<table, table0, argv, argc, root_pid, target_pid, option, callVars,
                   scanVars, logVars, dirVars, env>>

NextMain ==
    \/ main_check
    \/ main_basic_info
    \/ main_dc
    \/ main_ds
    \/ main_id
    \/ main_lg
    \/ main_lz
    \/ main_df
    \/ main_gc
    \/ main_do
    \/ main_bulk
    \/ main_rp
    \/ main_invalid_option
    \/ main_return
    \/ OpenProc
    \/ SkCollect
    \/ SkCollectEnd
    \/ SkKill
    \/ SkReopen
    \/ SkRescan
    \/ SkRescanEnd
    \/ StScan
    \/ DtScan
    \/ StDtEnd
    \/ PzScan
    \/ PzEnd

SpecMain == InitMain /\ [][NextMain]_vars

(***************************************************************************)
(* Properties of the bulk operations.                                      *)
(***************************************************************************)
Range(s) == { s[k] : k \in DOMAIN s }

Reverse(s) == [k \in 1..Len(s) |-> s[Len(s) + 1 - k]]

\* The kill() calls of one pass, and the pids a pass selected, in order.
SigsOf(pass) == SelectSeq(sigs, LAMBDA x : x.pass = pass)

SeenIn(pass) == SelectSeq(seen, LAMBDA x : x.pass = pass)

PidsOf(s) == [k \in 1..Len(s) |-> s[k].pid]

\* C1: no kill() call of kill_descendants(root), in the first pass or in the
\* re-scan, is addressed to root, whatever happens to the process table.
C1_KillNeverTargetsRoot ==
    fn = "kill_descendants" => \A k \in DOMAIN sigs : sigs[k].pid # pid

\* C1 witness: both passes have signalled something and the process table
\* changed under the program.
C1_Witness ==
    /\ fn = "kill_descendants" /\ pc = "done" /\ env > 0
    /\ SigsOf(1) # <<>> /\ SigsOf(2) # <<>>

\* C3: the first pass of kill_descendants signals the collected pids in the
\* reverse of the order of collection, each once: while the loop runs the
\* calls made are the reverse of the part of the array after index i, and
\* once it is over they are the reverse of the whole array.
C3_Pass1ReverseOrder ==
    fn = "kill_descendants" =>
        /\ \A k \in DOMAIN sigs : sigs[k].sig = "SIGKILL"
        /\ PidsOf(SigsOf(1)) =
             IF pc \in {"open", "scan"} THEN <<>>
             ELSE IF pc = "kill"
             THEN Reverse(SubSeq(descendants, i + 2, Len(descendants)))
             ELSE Reverse(descendants)
        /\ descendants = SubSeq(PidsOf(SeenIn(1)), 1, Len(descendants))

\* C3 witness: the first pass signalled two collected pids.
C3_Witness ==
    /\ fn = "kill_descendants" /\ pc = "done"
    /\ Len(descendants) >= 2 /\ Len(SigsOf(1)) = Len(descendants)

\* Where pid p stands among the pids a pass selected (0: nowhere).
SeenPos(p, pass) ==
    LET s == PidsOf(SeenIn(pass))
    IN  IF \E k \in DOMAIN s : s[k] = p
        THEN CHOOSE k \in DOMAIN s : s[k] = p /\ \A j \in 1..(k - 1) : s[j] # p
        ELSE 0

\* The calls a and b of one pass come in the order in which the pids that
\* caused them were selected.
InDiscoveryOrder(a, b) ==
    (/\ sigs[a].pass = sigs[b].pass
     /\ SeenPos(sigs[a].cause, sigs[a].pass) < SeenPos(sigs[b].cause, sigs[b].pass))
        => a < b

\* The calls a and b of one pass come in the reverse of that order.
InReverseDiscoveryOrder(a, b) ==
    (/\ sigs[a].pass = sigs[b].pass
     /\ SeenPos(sigs[a].cause, sigs[a].pass) < SeenPos(sigs[b].cause, sigs[b].pass))
        => b < a

\* C4: in every bulk operation the signals are issued in the order in which
\* their pids were discovered.
C4_SignalsInDiscoveryOrder ==
    fn \in BulkFns => \A a, b \in DOMAIN sigs : InDiscoveryOrder(a, b)

\* C4 as amended: that order holds in stop_descendants, continue_descendants,
\* kill_zombie_parents and the re-scan of kill_descendants; the first pass
\* of kill_descendants issues its signals in the reverse of it.
C4_DiscoveryOrderExceptFirstKillPass ==
    fn \in BulkFns =>
        \A a, b \in DOMAIN sigs :
            IF fn = "kill_descendants" /\ sigs[a].pass = 1
            THEN InReverseDiscoveryOrder(a, b)
            ELSE InDiscoveryOrder(a, b)

\* C4 witness: a kill_descendants whose two passes each signalled two pids.
C4_Witness ==
    /\ fn = "kill_descendants" /\ pc = "done"
    /\ Len(SigsOf(1)) >= 2 /\ Len(SigsOf(2)) >= 2

Overflowed == Len(SeenIn(1)) > MaxDescendants

TooMany == <<"Warning: Too many descendants; some may be missed">>

\* C5: when kill_descendants selects more descendants than the array holds,
\* the array is the first MaxDescendants of them in scan order, the warning
\* is printed, the operation goes on to its kill loop, and by its end every
\* pid of the array has been sent SIGKILL.
C5_OverflowTruncates ==
    (fn = "kill_descendants" /\ Overflowed) =>
        /\ descendants = SubSeq(PidsOf(SeenIn(1)), 1, MaxDescendants)
        /\ TooMany \in Range(err)
        /\ pc \in {"kill", "rescan", "done"}
        /\ (pc \in {"rescan", "done"} =>
              \A k \in DOMAIN descendants :
                  \E a \in DOMAIN sigs :
                      /\ sigs[a].pid = descendants[k]
                      /\ sigs[a].sig = "SIGKILL" /\ sigs[a].pass = 1)

\* C5 witness: a kill_descendants that overflowed and ran to its end.
C5_Witness ==
    fn = "kill_descendants" /\ Overflowed /\ pc = "done"

(***************************************************************************)
(* Properties of main.                                                     *)
(***************************************************************************)
\* The root and the target the command line names, where it names both.
GivenRoot == atoi(argv[1])

GivenTarget == atoi(argv[2])

FlagGiven == Len(argv) >= 3

\* The target is no descendant of the root in the process table the program
\* started with.
NotDescendant ==
    Len(argv) >= 2 /\ is_in_tree(table0, GivenRoot, GivenTarget) = 0

\* Nothing was done, and the program exits with 0 having printed at most the
\* notice.
NoOperation ==
    /\ pc \in {"main", "exit"}
    /\ sigs = <<>> /\ seen = <<>> /\ opens = 0 /\ fn = "none"
    /\ table = table0
    /\ pc = "exit" =>
          /\ rc = 0 /\ err = <<>>
          /\ out = IF FlagGiven
                   THEN << <<"Notice: Process does not belong to the tree rooted at",
                             GivenTarget, GivenRoot>> >>
                   ELSE <<>>

\* C6: when the target is no descendant of the root, the invocation does
\* nothing: it sends no signal, opens no directory, and exits with 0 having
\* printed nothing (no flag) or only the notice (any flag).
C6_NotInTreeDoesNothing == NotDescendant => NoOperation

WellFormed ==
    /\ Len(argv) \in {2, 3}
    /\ GivenRoot > 0 /\ GivenTarget > 0
    /\ get_process_info(table0, GivenRoot).pid # 0

\* C6 as amended: the same, for an invocation with two or three arguments,
\* two positive pids and a root whose record can be read.
C6_ValidNotInTreeDoesNothing == (WellFormed /\ NotDescendant) => NoOperation

\* C6 witness: -rp with a target outside the root's tree has exited.
C6_Witness ==
    /\ pc = "exit" /\ WellFormed /\ NotDescendant
    /\ FlagGiven /\ argv[3] = "-rp" /\ rc = 0 /\ Len(out) = 1

BadCount == Len(argv) \notin {2, 3}

NonPositive == Len(argv) >= 2 /\ (GivenRoot <= 0 \/ GivenTarget <= 0)

BadFlag == FlagGiven /\ argv[3] \notin Options

\* C7: an invocation that completed exits with 1 when the argument count is
\* wrong, a pid argument is not positive or the flag is none of the thirteen,
\* whatever the root and the target are, and with 0 otherwise.
C7_ExitCode ==
    pc = "exit" =>
        /\ rc \in {0, 1}
        /\ rc = 1 <=> (BadCount \/ NonPositive \/ BadFlag)

\* C7 as amended: it exits with 1 when the argument count is wrong, or else
\* a pid argument is not positive, or else the root's record cannot be read,
\* or else the target is in the root's tree and the flag is none of the
\* thirteen; with 0 otherwise.
C7_ExitCodeAfterChecks ==
    pc = "exit" =>
        /\ rc \in {0, 1}
        /\ rc = 1 <=>
             \/ BadCount
             \/ NonPositive
             \/ get_process_info(table0, GivenRoot).pid = 0
             \/ (~NotDescendant /\ BadFlag)

\* C7 witness: an unknown flag for a target in the root's tree was refused.
C7_Witness ==
    /\ pc = "exit" /\ rc = 1
    /\ WellFormed /\ ~NotDescendant /\ BadFlag

\* The lines print_error writes for a kill() that returned -1.
FailureTexts ==
    {"Error: Failed to kill descendant", "Error: Failed to kill missed descendant",
     "Error: Failed to stop descendant process",
     "Error: Failed to continue descendant process",
     "Error: Failed to kill parent of zombie"}

FailureLines == SelectSeq(err, LAMBDA l : l[1] \in FailureTexts)

FailedSigs == SelectSeq(sigs, LAMBDA x : x.ret = -1)

\* C15: a kill() that fails (EPERM, ESRCH) does not end a bulk operation:
\* every failure has its line on stderr, every pid a scan selects has its
\* kill() call, every collected pid of kill_descendants has had its call
\* once the kill loop is over, and an operation that could open /proc ends
\* only at the end of the directory.
C15_FailedKillDoesNotAbort ==
    fn \in BulkFns =>
        /\ Len(FailureLines) = Len(FailedSigs)
        /\ fn # "kill_descendants" => Len(sigs) = Len(seen)
        /\ fn = "kill_descendants" =>
              /\ Len(SigsOf(2)) = Len(SeenIn(2))
              /\ pc \in {"rescan", "done"} => Len(SigsOf(1)) = Len(descendants)
        /\ (pc = "done" /\ nodir = 0) => AtEnd

\* C15 witness: an operation ended in which a kill() that failed was
\* followed by a later kill().
C15_Witness ==
    /\ fn \in BulkFns /\ pc = "done" /\ nodir = 0
    /\ \E a, b \in DOMAIN sigs : a < b /\ sigs[a].ret = -1 /\ sigs[b].ret = 0

\* C16: kill_zombie_parents sends SIGKILL once for every zombie it selects
\* (in the tree, state Z, parentPid not 0), to another pid than the zombie,
\* and no pid the scan selected as a zombie is the addressee of any of its
\* kill() calls.
C16_ZombiesNeverSignalled ==
    fn = "kill_zombie_parents" =>
        /\ Len(sigs) = Len(seen)
        /\ \A k \in DOMAIN sigs :
              /\ sigs[k].sig = "SIGKILL"
              /\ sigs[k].cause = seen[k].pid
              /\ sigs[k].pid # sigs[k].cause
        /\ \A k \in DOMAIN sigs, z \in DOMAIN seen : sigs[k].pid # seen[z].pid

NoZombieLine == <<"No zombie processes found among descendants of", pid>>

\* C17: a kill_zombie_parents that scanned /proc prints its "No zombie
\* processes found" line exactly when the scan selected no zombie in the
\* tree, whether its kill() calls succeeded or failed.
C17_NoZombieLineIffNoneSeen ==
    (fn = "kill_zombie_parents" /\ pc = "done" /\ nodir = 0) =>
        (NoZombieLine \in Range(out) <=> seen = <<>>)

\* The kill() call this step made, where it made one.
Signals == Len(sigs') = Len(sigs) + 1

NewSig == sigs'[Len(sigs')]

\* C18: every kill() call of continue_descendants(root) sends SIGCONT to a
\* pid other than root for which is_in_tree(root, pid) holds and whose
\* record, as fetched in that iteration of the scan, has state T.
C18_ContinueOnlyStopped ==
    [][(fn = "continue_descendants" /\ Signals) =>
          /\ NewSig.sig = "SIGCONT"
          /\ NewSig.pid # pid
          /\ is_in_tree(table, pid, NewSig.pid) = 1
          /\ get_process_info(table, NewSig.pid).state = "T"]_vars

\* C18 witness: continue_descendants ended having signalled a stopped
\* descendant and passed over a child of root that was not stopped.
C18_Witness ==
    /\ fn = "continue_descendants" /\ pc = "done" /\ env = 0
    /\ sigs # <<>>
    /\ \E p \in Pids :
          /\ table0[p].alive /\ table0[p].ppid = pid /\ table0[p].state = "S"
          /\ \A k \in DOMAIN sigs : sigs[k].pid # p

\* The readable pids other than root that is_in_tree places under root in
\* the process table the program started with.
DescendantsAtStart ==
    { p \in Pids \ {pid} :
        Readable(table0, p) /\ is_in_tree(table0, pid, p) = 1 }

\* C19: when nothing else changes the process table, a stop_descendants(root)
\* that could open /proc has, at its end, opened it once and called
\* kill(p, SIGSTOP) exactly once for every readable p other than root with
\* is_in_tree(root, p), and for no other pid.
C19_StopEveryDescendantOnce ==
    (fn = "stop_descendants" /\ pc = "done" /\ env = 0 /\ nodir = 0) =>
        /\ opens = 1
        /\ \A k \in DOMAIN sigs : sigs[k].sig = "SIGSTOP"
        /\ Range(PidsOf(sigs)) = DescendantsAtStart
        /\ Len(sigs) = Cardinality(DescendantsAtStart)

\* C19 witness: two descendants were stopped and a process outside the
\* tree was left alone.
C19_Witness ==
    /\ fn = "stop_descendants" /\ pc = "done" /\ env = 0 /\ nodir = 0
    /\ Len(sigs) = 2
    /\ \E p \in Pids \ {pid} : table0[p].alive /\ p \notin DescendantsAtStart

\* This step's opendir returned NULL.
OpenFails == nodir' = nodir + 1

\* This step printed one line on stderr, about /proc, and nothing on stdout.
DirErrors ==
    {NoDir, <<"Error: Cannot access /proc directory for grandchildren">>}

ReportsNoDir ==
    /\ Len(err') = Len(err) + 1
    /\ err'[Len(err')] \in DirErrors
    /\ SubSeq(err', 1, Len(err)) = err

\* The operation is over and no signal is sent from here on.
StopsThere == pc' = "done" /\ sigs' = sigs /\ table' = table

AfterFailure == nodir > 0 => (sigs' = sigs /\ opens' = opens)

\* C14: whenever an opendir of /proc fails (the first of any operation, the
\* one before the re-scan of kill_descendants, an inner one of
\* list_grandchildren), the step reports it on stderr, the operation is
\* over, and no signal is sent and no directory opened after it.
C14_OpenFailureReportedAndFatal ==
    [][(OpenFails => (ReportsNoDir /\ StopsThere)) /\ AfterFailure]_vars

\* What the code does: the same, except that nothing is printed when the
\* opendir that fails is the one before the re-scan of kill_descendants.
OpenFailureFatalReportedButInRescan ==
    [][/\ OpenFails =>
            /\ StopsThere
            /\ IF fn = "kill_descendants" /\ pc = "kill"
               THEN err' = err /\ out' = out
               ELSE ReportsNoDir
       /\ AfterFailure]_vars

\* kill_descendants has killed in its first pass, could not open /proc for
\* the re-scan, and main has returned.
SilentRescanFailure ==
    /\ pc = "exit" /\ fn = "kill_descendants"
    /\ opens = 2 /\ nodir = 1 /\ sigs # <<>>

(***************************************************************************)
(* Properties of the query functions.                                      *)
(***************************************************************************)
\* The pids met from c on by following parentPid, at most `left` of them:
\* the chain ends before pid 0, and after a pid whose record cannot be read
\* (root is compared with a pid before that pid's record is fetched).
RECURSIVE ParentChain(_, _, _)
ParentChain(tbl, c, left) ==
    IF c = 0 \/ left = 0 THEN <<>>
    ELSE <<c>> \o (IF Readable(tbl, c)
                   THEN ParentChain(tbl, get_process_info(tbl, c).ppid, left - 1)
                   ELSE <<>>)

InChain(tbl, root, x) ==
    \/ root = x
    \/ /\ Readable(tbl, x)
       /\ root \in Range(ParentChain(tbl, get_process_info(tbl, x).ppid, MaxHops))

\* C2: is_in_tree(root, x) returns 1 iff root = x, or x's record is readable
\* and root is among the first MaxHops pids of x's parent chain (which ends
\* at pid 0 or at an unreadable record); so is_in_tree(p, p) = 1 for every
\* p, readable or not.
C2_IsDescendantIffInChain ==
    (pc = "done" /\ fn = "is_in_tree") =>
        /\ ret \in {0, 1}
        /\ (ret = 1) <=> InChain(table, pid, other)

\* C2 witness: root was found at the second hop of the walk.
C2_Witness ==
    /\ pc = "done" /\ fn = "is_in_tree" /\ ret = 1 /\ pid # other
    /\ get_process_info(table, other).ppid # pid

\* The records list_siblings(target) is said to print: those other than the
\* target that were fetched and carry the target's parentPid.
SiblingSet(tbl, t) ==
    { r \in Pids \ {t} :
        /\ Readable(tbl, r)
        /\ get_process_info(tbl, r).ppid = get_process_info(tbl, t).ppid }

\* C8: a completed list_siblings(target) prints exactly the pids other than
\* target whose record was fetched and whose parentPid is target's; entries
\* whose fetch failed are left out, also when target's parentPid is 0.
C8_SiblingsExact ==
    (pc = "done" /\ fn = "list_siblings" /\ err = <<>>) =>
        Range(out) = SiblingSet(table, pid)

\* C9: list_siblings(t) never prints t.
C9_SiblingsExcludeTarget ==
    (pc = "done" /\ fn = "list_siblings") => pid \notin Range(out)

\* C9 witness: a sibling scan that printed something for a target whose own
\* record passes the same-parent test.
C9_Witness ==
    /\ pc = "done" /\ fn = "list_siblings" /\ out # <<>>
    /\ Readable(table, pid)

\* C10: no pid is printed both by list_grandchildren(t) and by
\* list_immediate_descendants(t) on the same process table.
C10_GrandchildrenDisjointChildren ==
    (pc = "done" /\ fn = "list_grandchildren") =>
        Range(out) \cap Range(list_immediate_descendants(table, pid, TRUE).out) = {}

\* How many pids list_defunct_descendants(t) prints on table tbl.
ZombieListLen(tbl, t) == Len(list_defunct_descendants(tbl, t, TRUE).out)

\* C11: on one process table, the count count_defunct_descendants(t) returns
\* is at least the number of pids list_defunct_descendants(t) prints; the
\* two differ by exactly one when t's own record has state Z (the count
\* includes t, the list does not) and are equal otherwise.
C11_CountVersusZombieList ==
    (pc = "done" /\ fn = "count_defunct_descendants" /\ ret >= 0) =>
        /\ ret >= ZombieListLen(table, pid)
        /\ ret - ZombieListLen(table, pid) =
             IF get_process_info(table, pid).state = "Z" THEN 1 ELSE 0

\* C11 witness: a zombie target with a zombie descendant was counted.
C11_Witness ==
    /\ pc = "done" /\ fn = "count_defunct_descendants" /\ ret = 2
    /\ get_process_info(table, pid).state = "Z"
    /\ ZombieListLen(table, pid) = 1

\* C12: every pid list_immediate_descendants(t) prints is one for which
\* is_in_tree(t, pid) returns 1 on the same process table.
C12_ChildrenAreDescendants ==
    (pc = "done" /\ fn = "list_immediate_descendants") =>
        \A x \in Range(out) : is_in_tree(table, pid, x) = 1

\* C12 witness: a child other than the target itself was printed.
C12_Witness ==
    /\ pc = "done" /\ fn = "list_immediate_descendants"
    /\ \E x \in Range(out) : x # pid

\* C13: every pid list_defunct_siblings(t) prints is also printed by
\* list_siblings(t) on the same process table, and its record has state Z.
C13_ZombieSiblingsAreSiblings ==
    (pc = "done" /\ fn = "list_defunct_siblings") =>
        \A x \in Range(out) :
            /\ x \in Range(list_siblings(table, pid, TRUE).out)
            /\ get_process_info(table, x).state = "Z"

\* C13 witness: a zombie sibling was printed while the target has another
\* sibling that is no zombie.
C13_Witness ==
    /\ pc = "done" /\ fn = "list_defunct_siblings" /\ out # <<>>
    /\ Range(list_siblings(table, pid, TRUE).out) # Range(out)

\* The parent chain of x comes back on itself: it is still going after more
\* pids than there are.
CyclicChain(tbl, x) ==
    Len(ParentChain(tbl, get_process_info(tbl, x).ppid, MaxPid + 1)) = MaxPid + 1

\* C20: is_in_tree(root, target) makes at most MaxHops parent hops (1000 in
\* the source) on every process table; when target's parent chain is a
\* cycle that does not hold root, it makes exactly that many and returns 0.
C20_WalkIsBounded ==
    (pc = "done" /\ fn = "is_in_tree" /\ pid # other /\ Readable(table, other)) =>
        LET hops == WalkHops(table, pid, get_process_info(table, other).ppid, 0)
        IN  /\ hops \in 0..MaxHops
            /\ (/\ CyclicChain(table, other)
                /\ pid \notin Range(ParentChain(table,
                        get_process_info(table, other).ppid, MaxPid + 1)))
                  => (hops = MaxHops /\ ret = 0)

\* C20 witness: the walk ran round a cycle without root and gave up.
C20_Witness ==
    /\ pc = "done" /\ fn = "is_in_tree" /\ pid # other /\ ret = 0
    /\ Readable(table, other) /\ CyclicChain(table, other)
    /\ WalkHops(table, pid, get_process_info(table, other).ppid, 0) = MaxHops

\* C21: on one process table, the pids list_non_direct_descendants(t) prints
\* are disjoint from those list_immediate_descendants(t) prints, never
\* include t, and together with them are exactly the pids other than t
\* for which is_in_tree(t, pid) returns 1.
C21_NonDirectAndChildrenPartition ==
    (pc = "done" /\ fn = "list_non_direct_descendants" /\ nodir = 0) =>
        LET nondirect == Range(out)
            children  == Range(list_immediate_descendants(table, pid, TRUE).out)
        IN  /\ nondirect \cap children = {}
            /\ pid \notin nondirect
            /\ nondirect \cup children =
                 { r \in Pids \ {pid} : is_in_tree(table, pid, r) = 1 }

(***************************************************************************)
(* Further properties of the bulk operations and of the tree test.         *)
(***************************************************************************)
\* C22: every kill() call of kill_zombie_parents(target) is addressed to
\* target or to a pid for which is_in_tree(target, pid) holds when the call
\* is made; nothing outside target's subtree is signalled.
C22_ZombieParentsInsideSubtree ==
    [][(fn = "kill_zombie_parents" /\ Signals) =>
          is_in_tree(table, pid, NewSig.pid) = 1]_vars

\* What kill_descendants has sent SIGKILL so far.
Killed == { sigs[k].pid : k \in DOMAIN sigs }

AllDelivered == \A k \in DOMAIN sigs : sigs[k].ret = 0

\* C23: when nothing else changes the process table, /proc could be opened
\* and every kill() succeeded, a finished kill_descendants(target) has sent
\* SIGKILL to every process that was a descendant of target at its start,
\* also when there were more of them than the array holds and the children
\* of the killed ones went to a process outside target's subtree.
C23_EveryDescendantKilled ==
    (fn = "kill_descendants" /\ pc = "done" /\ env = 0 /\ nodir = 0
       /\ AllDelivered) =>
        DescendantsAtStart \subseteq Killed

\* C24: the second pass of kill_descendants signals, and counts as missed,
\* only pids that got no SIGKILL in the first pass: a pid whose kill() in the
\* first pass succeeded is not signalled again in the second.
C24_SecondPassOnlyMissed ==
    fn = "kill_descendants" =>
        \A a \in DOMAIN sigs, b \in DOMAIN sigs :
            (sigs[a].pass = 1 /\ sigs[a].ret = 0 /\ sigs[b].pass = 2) =>
                sigs[a].pid # sigs[b].pid

\* How many parent links lead from b up to a: 0 for a = b, else the place
\* of a in b's parent chain, and more than any chain is long when a is not
\* in it.
ChainPos(tbl, a, b) ==
    IF a = b THEN 0
    ELSE LET ch == ParentChain(tbl, get_process_info(tbl, b).ppid, MaxPid + 1)
         IN  IF a \in Range(ch)
             THEN CHOOSE k \in DOMAIN ch :
                     ch[k] = a /\ \A j \in 1..(k - 1) : ch[j] # a
             ELSE MaxPid + 2

\* C25 as stated: on one process table is_in_tree is transitive, whatever
\* the length of the chain: is_in_tree(a, b) and is_in_tree(b, c) give
\* is_in_tree(a, c).
C25_Transitive ==
    (pc = "done" /\ fn = "is_in_tree" /\ ret = 1) =>
        \A c \in Pids :
            is_in_tree(table, other, c) = 1 => is_in_tree(table, pid, c) = 1

\* C25: on one process table, is_in_tree(a, b) and is_in_tree(b, c) give
\* is_in_tree(a, c) whenever the parent links from c up to b and from b up
\* to a are together no more than MaxHops (1000 in the source).
C25_TransitiveWithinHopBound ==
    (pc = "done" /\ fn = "is_in_tree" /\ ret = 1) =>
        \A c \in Pids :
            (/\ is_in_tree(table, other, c) = 1
             /\ ChainPos(table, pid, other) + ChainPos(table, other, c)
                   <= MaxHops)
                => is_in_tree(table, pid, c) = 1

\* C25 witness: three different pids, c below b below a, within the bound.
C25_Witness ==
    /\ pc = "done" /\ fn = "is_in_tree" /\ ret = 1 /\ pid # other
    /\ \E c \in Pids \ {pid, other} :
        /\ is_in_tree(table, other, c) = 1
        /\ ChainPos(table, pid, other) + ChainPos(table, other, c) <= MaxHops
        /\ is_in_tree(table, pid, c) = 1

====
